---- MODULE Spec2Model ----
(***************************************************************************)
(* A model of scripts/cleanup.py: StudentDataCleaner.clean_dataset and the *)
(* eight column-cleaning stages it runs over one table.                    *)
(*                                                                         *)
(* Representation.                                                         *)
(*  - A text cell is a sequence of one-character strings, so that          *)
(*    startswith, split, strip, lower and title are computed character by  *)
(*    character.  A missing text cell (pandas NaN in an object column) is  *)
(*    the one-element sequence NA, which no text equals.                   *)
(*  - A number is an integer count of 1/Unit, Unit being a multiple of     *)
(*    1000 and of every gap length an interpolation can meet, so that      *)
(*    three decimals and every linear interpolation are exact.  The code   *)
(*    computes in binary floating point; the model computes the same       *)
(*    expressions in exact arithmetic.  A missing number is NaN.           *)
(*  - An instant is a natural number; a raw Timestamp cell is a text that  *)
(*    pandas can parse (it carries its instant), a text it cannot, or NA.  *)
(*  - A row carries the position `id` it had in the input file, so that a  *)
(*    row of the table can be related to its raw cells in `input`.         *)
(***************************************************************************)
EXTENDS Integers, Sequences, FiniteSets, TLC

VARIABLES
    input,      \* the raw table read_csv returns (never changes)
    columns,    \* the column names of the table
    df,         \* the table the stages thread through
    prev,       \* the table as it was before the last stage that ran
    aux,        \* the last GPA/Satisfaction stage's column after coercion and after fillna
    pc,         \* position in clean_dataset
    exc,        \* the exception in flight or raised ("" when none)
    failedAt,   \* the step that raised ("" when none)
    log,        \* the logger's records, in order
    files       \* the output files written so far

vars == <<input, columns, df, prev, aux, pc, exc, failedAt, log, files>>

(***************************************************************************)
(* Bounds of the model.                                                    *)
(***************************************************************************)
MaxRows == 2
MaxRowsAge == 3
MaxRowsGender == 2
MaxRowsScores == 4
MaxRowsComments == 3

(***************************************************************************)
(* Text.                                                                   *)
(***************************************************************************)
NA == <<"<NA>">>

UpperLetters ==
    <<"A", "B", "C", "D", "E", "F", "G", "H", "I", "J", "K", "L", "M",
      "N", "O", "P", "Q", "R", "S", "T", "U", "V", "W", "X", "Y", "Z">>

LowerLetters ==
    <<"a", "b", "c", "d", "e", "f", "g", "h", "i", "j", "k", "l", "m",
      "n", "o", "p", "q", "r", "s", "t", "u", "v", "w", "x", "y", "z">>

Digits == <<"0", "1", "2", "3", "4", "5", "6", "7", "8", "9">>

Range(s) == {s[i] : i \in DOMAIN s}

IndexIn(c, s) == CHOOSE i \in DOMAIN s : s[i] = c

IsUpper(c) == c \in Range(UpperLetters)

IsLower(c) == c \in Range(LowerLetters)

IsCased(c) == IsUpper(c) \/ IsLower(c)

IsDigit(c) == c \in Range(Digits)

IsSpace(c) == c \in {" ", "\t", "\n", "\r"}

ToLower(c) == IF IsUpper(c) THEN LowerLetters[IndexIn(c, UpperLetters)] ELSE c

ToUpper(c) == IF IsLower(c) THEN UpperLetters[IndexIn(c, LowerLetters)] ELSE c

\* str.lower
Lower(s) == [i \in DOMAIN s |-> ToLower(s[i])]

\* str.title: a cased character is upper-cased when the character before it
\* is not cased (or there is none), and lower-cased otherwise.
Title(s) ==
    [i \in DOMAIN s |->
        IF ~IsCased(s[i]) THEN s[i]
        ELSE IF i > 1 /\ IsCased(s[i - 1]) THEN ToLower(s[i])
        ELSE ToUpper(s[i])]

\* str.strip: without the leading and trailing whitespace.
Strip(s) ==
    LET inked == {i \in DOMAIN s : ~IsSpace(s[i])}
    IN  IF inked = {} THEN <<>>
        ELSE LET lo == CHOOSE i \in inked : \A j \in inked : i <= j
                 hi == CHOOSE i \in inked : \A j \in inked : j <= i
             IN  SubSeq(s, lo, hi)

\* str.startswith
StartsWith(s, p) == Len(s) >= Len(p) /\ SubSeq(s, 1, Len(p)) = p

\* str.split(':', 1): <<before>> when there is no ':', <<before, after>> of
\* the first ':' otherwise.
SplitColon(s) ==
    LET at == {i \in DOMAIN s : s[i] = ":"}
    IN  IF at = {} THEN <<s>>
        ELSE LET k == CHOOSE i \in at : \A j \in at : i <= j
             IN  <<SubSeq(s, 1, k - 1), SubSeq(s, k + 1, Len(s))>>

\* str(idx) of a natural number: its decimal digits.
RECURSIVE Str(_)
Str(n) == IF n < 10 THEN <<Digits[n + 1]>> ELSE Str(n \div 10) \o <<Digits[(n % 10) + 1]>>

(***************************************************************************)
(* Numbers.                                                                *)
(***************************************************************************)
NaN == -1

NaT == -1

Max(a, b) == IF a >= b THEN a ELSE b

RECURSIVE Factorial(_)
Factorial(n) == IF n <= 1 THEN 1 ELSE n * Factorial(n - 1)

\* The longest table any specification of this module loads.
LongestTable ==
    Max(Max(MaxRows, MaxRowsAge), Max(MaxRowsGender, Max(MaxRowsScores, MaxRowsComments)))

\* The model's 1.0: every number with three decimals, and every such number
\* divided by a gap shorter than the longest table, is a whole count of it.
Unit == 1000 * Factorial(LongestTable)

RECURSIVE Pow10(_)
Pow10(n) == IF n = 0 THEN 1 ELSE 10 * Pow10(n - 1)

\* The natural number a sequence of digits writes (0 for none).
RECURSIVE DigitsValue(_)
DigitsValue(s) ==
    IF s = <<>> THEN 0
    ELSE 10 * DigitsValue(SubSeq(s, 1, Len(s) - 1)) + (IndexIn(s[Len(s)], Digits) - 1)

AllDigits(s) == \A i \in DOMAIN s : IsDigit(s[i])

\* The parse of one cell by pd.to_numeric(..., errors='coerce'): the number
\* a plain decimal text (digits, at most one '.', at most three decimals)
\* writes, and NaN for a missing cell or any other text.
ParseNumber(s) ==
    IF s = NA THEN NaN
    ELSE LET dots == {i \in DOMAIN s : s[i] = "."}
         IN  IF dots = {}
             THEN IF Len(s) > 0 /\ AllDigits(s) THEN DigitsValue(s) * Unit ELSE NaN
             ELSE IF Cardinality(dots) > 1 THEN NaN
             ELSE LET k == CHOOSE i \in dots : TRUE
                      whole == SubSeq(s, 1, k - 1)
                      frac == SubSeq(s, k + 1, Len(s))
                  IN  IF AllDigits(whole) /\ AllDigits(frac)
                         /\ Len(whole) + Len(frac) > 0 /\ Len(frac) <= 3
                      THEN DigitsValue(whole) * Unit
                           + (DigitsValue(frac) * Unit) \div Pow10(Len(frac))
                      ELSE NaN

\* Series.round(2) of one value: to the nearest hundredth, a tie to the
\* even hundredth (numpy's rounding); NaN stays NaN.
Round2(v) ==
    IF v = NaN THEN NaN
    ELSE LET step == Unit \div 100
             q == v \div step
             r == v % step
         IN  IF 2 * r < step THEN q * step
             ELSE IF 2 * r > step THEN (q + 1) * step
             ELSE IF q % 2 = 0 THEN q * step
             ELSE (q + 1) * step

\* interpolate(limit_area='inside'): no value after the last present one is
\* filled.
InterpolateInside(col) ==
    [k \in DOMAIN col |->
        IF col[k] # NaN THEN col[k]
        ELSE LET before == {i \in DOMAIN col : i < k /\ col[i] # NaN}
                 after == {i \in DOMAIN col : i > k /\ col[i] # NaN}
             IN  IF before = {} \/ after = {} THEN NaN
                 ELSE LET p == CHOOSE i \in before : \A j \in before : j <= i
                          q == CHOOSE i \in after : \A j \in after : i <= j
                      IN  col[p] + ((col[q] - col[p]) * (k - p)) \div (q - p)]

\* interpolate(method='pad'): every missing value takes the last present
\* value before it.
InterpolatePad(col) ==
    [k \in DOMAIN col |->
        IF col[k] # NaN THEN col[k]
        ELSE LET before == {i \in DOMAIN col : i < k /\ col[i] # NaN}
             IN  IF before = {} THEN NaN
                 ELSE col[CHOOSE i \in before : \A j \in before : j <= i]]

\* Series.interpolate(method='linear') with pandas' defaults
\* (limit_direction='forward', no limit, no limit_area): positions are
\* equally spaced; a missing value between two present ones lies on the
\* line through them; a missing value before the first present one stays
\* missing; a missing value after the last present one takes the last
\* present value (np.interp clamps on the right and only the leading
\* missing values are restored to NaN).
Interpolate(col) ==
    [k \in DOMAIN col |->
        IF col[k] # NaN THEN col[k]
        ELSE LET before == {i \in DOMAIN col : i < k /\ col[i] # NaN}
                 after == {i \in DOMAIN col : i > k /\ col[i] # NaN}
             IN  IF before = {} THEN NaN
                 ELSE LET p == CHOOSE i \in before : \A j \in before : j <= i
                      IN  IF after = {} THEN col[p]
                          ELSE LET q == CHOOSE i \in after : \A j \in after : i <= j
                               IN  col[p] + ((col[q] - col[p]) * (k - p)) \div (q - p)]

\* Series.fillna(other): a missing value takes other's value at the same row.
FillnaFrom(col, other) ==
    [k \in DOMAIN col |-> IF col[k] = NaN THEN other[k] ELSE col[k]]

(***************************************************************************)
(* Timestamps.                                                             *)
(***************************************************************************)
IsLeap(y) == y % 4 = 0 /\ (y % 100 # 0 \/ y % 400 = 0)

DaysInMonth(y, m) ==
    IF m = 2 THEN (IF IsLeap(y) THEN 29 ELSE 28)
    ELSE IF m \in {4, 6, 9, 11} THEN 30 ELSE 31

\* The parse of one cell by pd.to_datetime(..., errors='coerce'), for the
\* texts of the model: a calendar date written YYYY-MM-DD parses to its
\* instant (dates keep their order), anything else to NaT.
ParseDatetime(s) ==
    IF s = NA \/ Len(s) # 10 THEN NaT
    ELSE IF ~(s[5] = "-" /\ s[8] = "-" /\ AllDigits(SubSeq(s, 1, 4))
              /\ AllDigits(SubSeq(s, 6, 7)) /\ AllDigits(SubSeq(s, 9, 10)))
    THEN NaT
    ELSE LET y == DigitsValue(SubSeq(s, 1, 4))
             m == DigitsValue(SubSeq(s, 6, 7))
             d == DigitsValue(SubSeq(s, 9, 10))
         IN  IF m \in 1..12 /\ d >= 1 /\ d <= DaysInMonth(y, m)
             THEN (y * 12 + (m - 1)) * 31 + (d - 1)
             ELSE NaT

(***************************************************************************)
(* The mappings of StudentDataCleaner.__init__: sets of <<key, value>>.    *)
(***************************************************************************)
gender_mapping ==
    {<<<<"F", "e", "m", "a", "l">>, <<"F", "e", "m", "a", "l", "e">>>>,
     <<<<"M", "a", "l", "e", "e">>, <<"M", "a", "l", "e">>>>,
     <<<<"O", "t", "h", "r">>, <<"O", "t", "h", "e", "r">>>>,
     <<NA, <<"O", "t", "h", "e", "r">>>>}

department_mapping ==
    {<<NA, <<"U", "n", "d", "e", "c", "l", "a", "r", "e", "d">>>>,
     <<<<"M", "a", "r", "i", "n", "e", " ", "S", "c", "i">>,
       <<"M", "a", "r", "i", "n", "e", " ", "S", "c", "i", "e", "n", "c", "e", "s">>>>,
     <<<<"G", "e", "o">>,
       <<"G", "e", "o", "s", "c", "i", "e", "n", "c", "e", "s">>>>,
     <<<<"B", "i", "o", "c", "h", "e", "m">>,
       <<"B", "i", "o", "c", "h", "e", "m", "i", "s", "t", "r", "y">>>>,
     <<<<"M", "a", "t", "h", "s">>,
       <<"M", "a", "t", "h", "e", "m", "a", "t", "i", "c", "s">>>>,
     <<<<"P", "h", "y", "s">>,
       <<"P", "h", "y", "s", "i", "c", "s">>>>,
     <<<<"B", "i", "o">>,
       <<"B", "i", "o", "l", "o", "g", "y">>>>,
     <<<<"C", "e", "l", "l", " ", "B", "i", "o">>,
       <<"C", "e", "l", "l", " ", "B", "i", "o", "l", "o", "g", "y", " ", "a", "n", "d", " ",
         "G", "e", "n", "e", "t", "i", "c", "s">>>>,
     <<<<"C", "h", "e", "m">>,
       <<"C", "h", "e", "m", "i", "s", "t", "r", "y">>>>,
     <<<<"G", "e", "o", "p", "h", "y">>,
       <<"G", "e", "o", "p", "h", "y", "s", "i", "c", "s">>>>,
     <<<<"Z", "o", "o">>,
       <<"Z", "o", "o", "l", "o", "g", "y">>>>,
     <<<<"M", "i", "c", "r", "o", "b", "i", "o">>,
       <<"M", "i", "c", "r", "o", "b", "i", "o", "l", "o", "g", "y">>>>,
     <<<<"C", "o", "m", "p", " ", "S", "c", "i">>,
       <<"C", "o", "m", "p", "u", "t", "e", "r", " ", "S", "c", "i", "e", "n", "c", "e">>>>}

\* Letter grade -> grade points, in tenths of a point.
grade_mapping ==
    {<<<<"A">>, 45>>, <<<<"B">>, 35>>, <<<<"C">>, 30>>, <<<<"D">>, 25>>, <<<<"F">>, 15>>}

Keys(mapping) == {p[1] : p \in mapping}

Lookup(mapping, key) == (CHOOSE p \in mapping : p[1] = key)[2]

\* Series.replace(mapping) of one cell: a cell equal to a key takes the
\* key's value; every other cell is left as it is.
Replace(cell, mapping) ==
    IF cell \in Keys(mapping) THEN Lookup(mapping, cell) ELSE cell

\* Series.fillna(value) of one text cell.
Fillna(cell, value) == IF cell = NA THEN value ELSE cell

(***************************************************************************)
(* Program constants.                                                      *)
(***************************************************************************)
MinAge == 18

MaxAge == 60

MinGPA == 1

MinSatisfaction == 1

SpamPrefix == <<"T", "h", "i", "s", " ", "i", "s", " ", "s", "p", "a", "m">>

CommentPrefix == <<"C", "o", "m", "m", "e", "n", "t">>

CannedComment ==
    <<"T", "h", "e", " ", "c", "o", "u", "r", "s", "e", " ", "w", "a", "s", " ",
      "g", "r", "e", "a", "t", "!">>

NoComment == <<"N", "o", " ", "c", "o", "m", "m", "e", "n", "t">>

OtherGender == <<"O", "t", "h", "e", "r">>

Undeclared == <<"U", "n", "d", "e", "c", "l", "a", "r", "e", "d">>

\* The header clean_dataset expects of the input file.
AllColumns ==
    {"Timestamp", "Student ID", "Age", "Gender", "Department", "GPA",
     "Satisfaction (1-5)", "Comments"}

(***************************************************************************)
(* Tables: sequences of rows.  A row is a record with the fields id,       *)
(* Timestamp, Student_ID, Age, Gender, Department, GPA, Satisfaction and   *)
(* Comments (the key of a column the file lacks is never read).            *)
(***************************************************************************)
Ids(rows) == {rows[i].id : i \in DOMAIN rows}

RowOf(rows, id) == rows[CHOOSE i \in DOMAIN rows : rows[i].id = id]

\* read_csv's type inference: a column of a file with rows whose every cell
\* is empty or a number is a numeric column; any other column holds texts
\* (dtype object).
IsNumericColumn(rows, f) ==
    /\ rows # <<>>
    /\ \A i \in DOMAIN rows : rows[i][f] = NA \/ ParseNumber(rows[i][f]) # NaN

(***************************************************************************)
(* _clean_timestamps: parse, drop the rows that did not parse.             *)
(***************************************************************************)
CleanTimestampsTable(rows) ==
    SelectSeq([i \in DOMAIN rows |-> [rows[i] EXCEPT !.Timestamp = ParseDatetime(@)]],
              LAMBDA r : r.Timestamp # NaT)

(***************************************************************************)
(* _clean_student_ids: lower-case, then strip (a missing id stays missing).*)
(***************************************************************************)
CleanStudentIdsTable(rows) ==
    [i \in DOMAIN rows |->
        [rows[i] EXCEPT !.Student_ID = IF @ = NA THEN NA ELSE Strip(Lower(@))]]

(***************************************************************************)
(* _clean_ages: coerce, drop missing, keep [18, 60], cast to int.          *)
(***************************************************************************)
\* A slip: the upper bound excluded.
AgeInRangeExclusive(v) == v >= MinAge * Unit /\ v < MaxAge * Unit

AgeInRange(v) == v >= MinAge * Unit /\ v <= MaxAge * Unit

\* astype(int): truncation toward zero of a non-negative number.
AsInt(v) == v \div Unit

CleanAgesTable(rows) ==
    LET coerced == [i \in DOMAIN rows |-> [rows[i] EXCEPT !.Age = ParseNumber(@)]]
        present == SelectSeq(coerced, LAMBDA r : r.Age # NaN)
        inRange == SelectSeq(present, LAMBDA r : AgeInRange(r.Age))
    IN  [i \in DOMAIN inRange |-> [inRange[i] EXCEPT !.Age = AsInt(@)]]

(***************************************************************************)
(* _clean_gender: replace by gender_mapping, fill missing, title-case.     *)
(***************************************************************************)
\* `numeric`: read_csv made the column numeric.  The .str accessor turns a
\* cell that is not a str (a number) into a missing value.
CleanGenderCell(cell, numeric) ==
    LET filled == Fillna(Replace(cell, gender_mapping), OtherGender)
    IN  IF numeric /\ ParseNumber(filled) # NaN THEN NA ELSE Title(filled)

CleanGenderTable(rows, numeric) ==
    [i \in DOMAIN rows |-> [rows[i] EXCEPT !.Gender = CleanGenderCell(@, numeric)]]

\* The .str accessor raises AttributeError on a numeric column: the column
\* is still numeric when replace() found no missing cell to turn into text.
GenderRaises(file, rows) ==
    IsNumericColumn(file, "Gender") /\ \A i \in DOMAIN rows : rows[i].Gender # NA

(***************************************************************************)
(* _clean_departments: replace by department_mapping, fill missing.        *)
(***************************************************************************)
CleanDepartmentCell(cell) == Fillna(Replace(cell, department_mapping), Undeclared)

CleanDepartmentsTable(rows) ==
    [i \in DOMAIN rows |-> [rows[i] EXCEPT !.Department = CleanDepartmentCell(@)]]

(***************************************************************************)
(* _clean_gpa: letter grades to points, coerce, fill missing from the      *)
(* interpolation, round, keep >= 1.0.                                      *)
(***************************************************************************)
\* replace(grade_mapping) then to_numeric(errors='coerce') of one cell.
CoerceGpa(cell) ==
    IF cell \in Keys(grade_mapping)
    THEN (Lookup(grade_mapping, cell) * Unit) \div 10
    ELSE ParseNumber(cell)

GpaCoerced(rows) == [i \in DOMAIN rows |-> CoerceGpa(rows[i].GPA)]

GpaFilled(rows) == FillnaFrom(GpaCoerced(rows), Interpolate(GpaCoerced(rows)))

\* A slip: the bound 1.0 excluded.
GpaKeptStrict(v) == v > MinGPA * Unit

\* NaN >= 1.0 is False in the code; NaN is below every bound here.
GpaKept(v) == v >= MinGPA * Unit

CleanGpaTable(rows) ==
    LET filled == GpaFilled(rows)
        rounded == [i \in DOMAIN rows |-> [rows[i] EXCEPT !.GPA = Round2(filled[i])]]
    IN  SelectSeq(rounded, LAMBDA r : GpaKept(r.GPA))

(***************************************************************************)
(* _clean_satisfaction: fill missing from the interpolation, round, keep   *)
(* >= 1.0.  There is no coercion: the column is what read_csv made of it,  *)
(* numbers when the whole column of the file is numeric.                   *)
(***************************************************************************)
SatisfactionValues(rows) == [i \in DOMAIN rows |-> ParseNumber(rows[i].Satisfaction)]

SatisfactionFilled(rows) ==
    FillnaFrom(SatisfactionValues(rows), Interpolate(SatisfactionValues(rows)))

SatisfactionKept(v) == v >= MinSatisfaction * Unit

CleanSatisfactionTable(rows) ==
    LET filled == SatisfactionFilled(rows)
        rounded == [i \in DOMAIN rows |->
                       [rows[i] EXCEPT !.Satisfaction = Round2(filled[i])]]
    IN  SelectSeq(rounded, LAMBDA r : SatisfactionKept(r.Satisfaction))

(***************************************************************************)
(* _standardize_comment and _clean_comments.                               *)
(***************************************************************************)
\* f'Comment {idx}: {content}'
Labelled(idx, content) == CommentPrefix \o <<" ">> \o Str(idx) \o <<":", " ">> \o content

\* str.rsplit(':', 1) in place of split(':', 1): the text after the last ':'.
StandardizeCommentLastColon(idx, text) ==
    IF StartsWith(text, SpamPrefix) THEN Labelled(idx, CannedComment)
    ELSE IF StartsWith(text, CommentPrefix)
    THEN LET at == {i \in DOMAIN text : text[i] = ":"}
         IN  Labelled(idx,
                 IF at = {} THEN NoComment
                 ELSE Strip(SubSeq(text, (CHOOSE i \in at : \A j \in at : j <= i) + 1,
                                   Len(text))))
    ELSE IF Strip(text) # <<>> THEN Labelled(idx, Strip(text))
    ELSE Labelled(idx, NoComment)

\* The text is a str here: _clean_comments fills the missing comments
\* first, and the Comments cells of the model are texts that are not numbers.
StandardizeComment(idx, text) ==
    IF StartsWith(text, SpamPrefix) THEN Labelled(idx, CannedComment)
    ELSE IF StartsWith(text, CommentPrefix)
    THEN LET parts == SplitColon(text)
         IN  Labelled(idx, IF Len(parts) > 1 THEN Strip(parts[2]) ELSE NoComment)
    ELSE IF Strip(text) # <<>> THEN Labelled(idx, Strip(text))
    ELSE Labelled(idx, NoComment)

\* The orders of n rows: the permutations of their positions.
RowOrders(n) == Permutations(1..n)

\* sort_values(..., ascending=False)
SortOutcomesDescending(rows) ==
    {[i \in DOMAIN rows |-> rows[p[i]]] : p \in
        {o \in RowOrders(Len(rows)) :
            \A i, j \in DOMAIN rows :
                i < j => rows[o[i]].Timestamp >= rows[o[j]].Timestamp}}

\* sort_values('Timestamp', ascending=True) with pandas' default
\* kind='quicksort', which is not a stable sort: the outcomes are the
\* orders of the rows in which the timestamps ascend; rows with equal
\* timestamps come in an order the sort algorithm decides.
SortOutcomes(rows) ==
    {[i \in DOMAIN rows |-> rows[p[i]]] : p \in
        {o \in RowOrders(Len(rows)) :
            \A i, j \in DOMAIN rows :
                i < j => rows[o[i]].Timestamp <= rows[o[j]].Timestamp}}

\* enumerate(..., 1): positions from 1.
StandardizeAllOneBased(rows) ==
    [i \in DOMAIN rows |->
        [rows[i] EXCEPT !.Comments = StandardizeComment(i, @)]]

\* enumerate(df['Comments']) after reset_index(drop=True): positions from 0.
StandardizeAll(rows) ==
    [i \in DOMAIN rows |->
        [rows[i] EXCEPT !.Comments = StandardizeComment(i - 1, @)]]

FillComments(rows) ==
    [i \in DOMAIN rows |-> [rows[i] EXCEPT !.Comments = Fillna(@, CannedComment)]]

CleanCommentsOutcomes(rows) ==
    {StandardizeAll(sorted) : sorted \in SortOutcomes(FillComments(rows))}

(***************************************************************************)
(* clean_dataset.                                                          *)
(***************************************************************************)
Stages ==
    <<"timestamps", "student_ids", "ages", "gender", "departments", "gpa",
      "satisfaction", "comments">>

\* The calls of _clean_gender and _clean_departments exchanged.
PipelineSwapped ==
    <<"load", "timestamps", "student_ids", "ages", "departments", "gender", "gpa",
      "satisfaction", "comments", "to_csv", "to_excel", "finish", "done">>

\* The order of the calls in clean_dataset.
Pipeline == <<"load">> \o Stages \o <<"to_csv", "to_excel", "finish", "done">>

After(step) == Pipeline[(CHOOSE i \in DOMAIN Pipeline : Pipeline[i] = step) + 1]

Started(stage) == <<stage, "start">>

Ended(stage) == <<stage, "end">>

NoAux == [coerced |-> <<>>, filled |-> <<>>]

\* An exception leaves the try block for the except clause.
Raise(step, kind) ==
    /\ pc' = "except"
    /\ exc' = kind
    /\ failedAt' = step

\* A stage that returns: its two log records, the table it returns.
Return(stage, table) ==
    /\ df' = table
    /\ prev' = df
    /\ log' = log \o <<Started(stage), Ended(stage)>>
    /\ pc' = After(stage)
    /\ UNCHANGED <<exc, failedAt>>

\* A stage that raises after its first log record.
Throw(stage, kind) ==
    /\ Raise(stage, kind)
    /\ log' = Append(log, Started(stage))
    /\ UNCHANGED <<df, prev>>

\* pd.read_csv(input_path): the file is there or it is not.
Load ==
    /\ pc = "load"
    /\ \E found \in BOOLEAN :
        IF found
        THEN /\ df' = input
             /\ log' = log \o <<<<"pipeline", "start">>, <<"load", "end">>>>
             /\ pc' = After("load")
             /\ UNCHANGED <<exc, failedAt>>
        ELSE /\ Raise("load", "FileNotFoundError")
             /\ log' = Append(log, <<"pipeline", "start">>)
             /\ UNCHANGED df
    /\ UNCHANGED <<input, columns, prev, aux, files>>

CleanTimestamps ==
    /\ pc = "timestamps"
    /\ IF "Timestamp" \notin columns
       THEN Throw("timestamps", "KeyError")
       ELSE Return("timestamps", CleanTimestampsTable(df))
    /\ UNCHANGED <<input, columns, aux, files>>

\* rename() ignores a column that is not there; the lookup of Student_ID
\* then raises KeyError.  .str raises AttributeError on a numeric column.
CleanStudentIds ==
    /\ pc = "student_ids"
    /\ columns' = IF "Student ID" \in columns
                  THEN (columns \ {"Student ID"}) \cup {"Student_ID"}
                  ELSE columns
    /\ IF "Student ID" \notin columns
       THEN Throw("student_ids", "KeyError")
       ELSE IF IsNumericColumn(input, "Student_ID")
       THEN Throw("student_ids", "AttributeError")
       ELSE Return("student_ids", CleanStudentIdsTable(df))
    /\ UNCHANGED <<input, aux, files>>

CleanAges ==
    /\ pc = "ages"
    /\ IF "Age" \notin columns
       THEN Throw("ages", "KeyError")
       ELSE Return("ages", CleanAgesTable(df))
    /\ UNCHANGED <<input, columns, aux, files>>

CleanGender ==
    /\ pc = "gender"
    /\ IF "Gender" \notin columns
       THEN Throw("gender", "KeyError")
       ELSE IF GenderRaises(input, df)
       THEN Throw("gender", "AttributeError")
       ELSE Return("gender", CleanGenderTable(df, IsNumericColumn(input, "Gender")))
    /\ UNCHANGED <<input, columns, aux, files>>

CleanDepartments ==
    /\ pc = "departments"
    /\ IF "Department" \notin columns
       THEN Throw("departments", "KeyError")
       ELSE Return("departments", CleanDepartmentsTable(df))
    /\ UNCHANGED <<input, columns, aux, files>>

CleanGpa ==
    /\ pc = "gpa"
    /\ IF "GPA" \notin columns
       THEN Throw("gpa", "KeyError") /\ UNCHANGED aux
       ELSE /\ Return("gpa", CleanGpaTable(df))
            /\ aux' = [coerced |-> GpaCoerced(df), filled |-> GpaFilled(df)]
    /\ UNCHANGED <<input, columns, files>>

\* On a column of texts (dtype object) interpolate() fills nothing and
\* round(2) raises TypeError on the first cell; with no row left there is no
\* cell to raise on in pandas 2, and pandas 3 raises on the dtype alone.
CleanSatisfaction ==
    /\ pc = "satisfaction"
    /\ IF "Satisfaction (1-5)" \notin columns
       THEN Throw("satisfaction", "KeyError") /\ UNCHANGED aux
       ELSE \E raises \in IF IsNumericColumn(input, "Satisfaction") THEN {FALSE}
                          ELSE IF df = <<>> THEN BOOLEAN ELSE {TRUE} :
            IF raises
            THEN Throw("satisfaction", "TypeError") /\ UNCHANGED aux
            ELSE /\ Return("satisfaction", CleanSatisfactionTable(df))
                 /\ aux' = [coerced |-> SatisfactionValues(df),
                            filled |-> SatisfactionFilled(df)]
    /\ UNCHANGED <<input, columns, files>>

CleanComments ==
    /\ pc = "comments"
    /\ IF "Comments" \notin columns
       THEN Throw("comments", "KeyError")
       ELSE \E table \in CleanCommentsOutcomes(df) : Return("comments", table)
    /\ UNCHANGED <<input, columns, aux, files>>

\* os.makedirs and df.to_csv: the write succeeds or raises OSError.
WriteCsv ==
    /\ pc = "to_csv"
    /\ \E ok \in BOOLEAN :
        IF ok
        THEN /\ files' = files \cup {"csv"}
             /\ pc' = After("to_csv")
             /\ UNCHANGED <<exc, failedAt>>
        ELSE Raise("to_csv", "OSError") /\ UNCHANGED files
    /\ UNCHANGED <<input, columns, df, prev, aux, log>>

\* df.to_excel
WriteExcel ==
    /\ pc = "to_excel"
    /\ \E ok \in BOOLEAN :
        IF ok
        THEN /\ files' = files \cup {"excel"}
             /\ pc' = After("to_excel")
             /\ UNCHANGED <<exc, failedAt>>
        ELSE Raise("to_excel", "OSError") /\ UNCHANGED files
    /\ UNCHANGED <<input, columns, df, prev, aux, log>>

\* The final statistics and `return df`.
Finish ==
    /\ pc = "finish"
    /\ log' = Append(log, <<"pipeline", "complete">>)
    /\ pc' = After("finish")
    /\ UNCHANGED <<input, columns, df, prev, aux, exc, failedAt, files>>

\* except Exception as e: logger.error(...); raise
HandleException ==
    /\ pc = "except"
    /\ log' = Append(log, <<"pipeline", "error">>)
    /\ pc' = "raised"
    /\ UNCHANGED <<input, columns, df, prev, aux, exc, failedAt, files>>

Next ==
    \/ Load
    \/ CleanTimestamps
    \/ CleanStudentIds
    \/ CleanAges
    \/ CleanGender
    \/ CleanDepartments
    \/ CleanGpa
    \/ CleanSatisfaction
    \/ CleanComments
    \/ WriteCsv
    \/ WriteExcel
    \/ Finish
    \/ HandleException

(***************************************************************************)
(* Input files.  Each specification reads the files whose rows are drawn   *)
(* from one set of row shapes; a shape fixes every cell of a row.          *)
(***************************************************************************)
PlainRow ==
    [Timestamp |-> <<"2", "0", "2", "5", "-", "1", "0", "-", "0", "1">>,
     Student_ID |-> <<" ", "S", "1", " ">>,
     Age |-> <<"2", "0">>,
     Gender |-> <<"F", "e", "m", "a", "l", "e">>,
     Department |-> <<"B", "i", "o">>,
     GPA |-> <<"3", ".", "0">>,
     Satisfaction |-> <<"4">>,
     Comments |-> <<"o", "k">>]

With(f, cells) == {[PlainRow EXCEPT ![f] = c] : c \in cells}

\* The file whose rows have the shapes t[1], t[2], ...: row i has id i.
\* A dated file has row i stamped with day i of a month (its rows are in
\* the order of their timestamps, no two at the same instant), unless the
\* shape gives the row a timestamp of its own.
File(t, dated) ==
    [i \in DOMAIN t |->
        [id |-> i] @@
        (IF dated /\ t[i].Timestamp = PlainRow.Timestamp
         THEN [t[i] EXCEPT !.Timestamp =
                  <<"2", "0", "2", "5", "-", "1", "0", "-", "0", Digits[i + 1]>>]
         ELSE t[i])]

RawTimestamps ==
    {NA,
     <<"2", "0", "2", "5", "-", "1", "0", "-", "0", "1">>,
     <<"2", "0", "2", "5", "-", "1", "0", "-", "0", "2">>,
     <<"2", "0", "2", "5", "-", "1", "3", "-", "0", "1">>,
     <<"y", "e", "s", "t", "e", "r", "d", "a", "y">>}

RawAges ==
    {NA,
     <<"a", "b", "c">>,
     <<"1", "7">>,
     <<"1", "7", ".", "9">>,
     <<"1", "8">>,
     <<"1", "8", ".", "5">>,
     <<"6", "0">>,
     <<"6", "0", ".", "5">>,
     <<"6", "1">>}

RawGenders ==
    {NA,
     <<"F", "e", "m", "a", "l">>,
     <<"f", "e", "m", "a", "l">>,
     <<"F", "E", "M", "A", "L">>,
     <<"M", "a", "l", "e", "e">>,
     <<"O", "t", "h", "r">>,
     <<"o", "t", "h", "r">>,
     <<"F", "e", "m", "a", "l", "e">>,
     <<"m", "a", "l", "e">>,
     <<"M">>,
     <<"n", "o", "n", " ", "b", "i", "n", "a", "r", "y">>}

RawComments ==
    {NA,
     <<"T", "h", "i", "s", " ", "i", "s", " ", "s", "p", "a", "m", ",", " ", "b", "u", "y", " ", "n", "o", "w", "!">>,
     <<"C", "o", "m", "m", "e", "n", "t", " ", "2", ":", " ", "g", "r", "e", "a", "t", " ", "c", "l", "a", "s", "s">>,
     <<"C", "o", "m", "m", "e", "n", "t", " ", "4", ":", " ", "a", ":", " ", "b", " ">>,
     <<" ", " ", " ">>}

LaterComments ==
    {<<"C", "o", "m", "m", "e", "n", "t", " ", "3", ":">>,
     <<"C", "o", "m", "m", "e", "n", "t", "s", " ", "w", "e", "l", "c", "o", "m", "e">>,
     <<" ", "C", "o", "m", "m", "e", "n", "t", " ", "1", ":", " ", "x">>,
     <<" ", " ", "h", "e", "l", "l", "o", " ", " ">>}

EarlyComments ==
    {<<"C", "o", "m", "m", "e", "n", "t", " ", "9", ":", " ", "T", "h", "i", "s", " ", "i", "s", " ", "s", "p", "a", "m">>}

\* <<GPA, Satisfaction>>
RawScores ==
    {<<<<"3", ".", "0">>, <<"4">>>>,
     <<NA, <<"4">>>>,
     <<NA, NA>>,
     <<<<"A">>, NA>>,
     <<<<"x">>, <<"4">>>>,
     <<<<"0", ".", "5">>, <<"4">>>>,
     <<<<"0", ".", "9", "9", "6">>, <<"0", ".", "5">>>>,
     <<<<"5", ".", "0">>, NA>>,
     <<<<"3", ".", "0">>, <<"a", "b", "c">>>>}

MainShapes ==
    {PlainRow}
    \cup With("Timestamp", {<<"y", "e", "s", "t", "e", "r", "d", "a", "y">>})
    \cup With("Student_ID", {<<"1", "2">>})
    \cup With("Age", {<<"a", "b", "c">>})
    \cup With("Satisfaction", {<<"a", "b", "c">>})

AgeShapes ==
    With("Age", RawAges) \cup With("Timestamp", RawTimestamps)

GenderShapes == With("Gender", RawGenders) \cup With("Age", {<<"1", "7">>})

ScoreShapes ==
    {[PlainRow EXCEPT !.GPA = p[1], !.Satisfaction = p[2]] : p \in RawScores}
    \cup {[PlainRow EXCEPT !.Age = <<"1", "7">>, !.GPA = <<"0", ".", "5">>]}

CommentShapes ==
    With("Comments", RawComments)
    \cup {[PlainRow EXCEPT !.Timestamp = <<"2", "0", "2", "5", "-", "1", "0", "-", "0", "2">>, !.Comments = c] :
             c \in LaterComments}
    \cup {[PlainRow EXCEPT !.Timestamp = <<"2", "0", "2", "5", "-", "0", "9", "-", "3", "0">>, !.Comments = c] :
             c \in EarlyComments}

\* The headers: the expected one, and the expected one less one column.
Headers == {AllColumns} \cup {AllColumns \ {c} : c \in AllColumns}

(***************************************************************************)
(* Specifications.                                                         *)
(***************************************************************************)
\* The state when clean_dataset is called on a file of at most n rows.
InitWith(shapes, n, dated, headers) ==
    /\ \E k \in 0..n : \E t \in [1..k -> shapes] : input = File(t, dated)
    /\ columns \in headers
    /\ df = <<>>
    /\ prev = <<>>
    /\ aux = NoAux
    /\ pc = "load"
    /\ exc = ""
    /\ failedAt = ""
    /\ log = <<>>
    /\ files = {}

Init == InitWith(MainShapes, MaxRows, FALSE, Headers)

InitAge == InitWith(AgeShapes, MaxRowsAge, TRUE, {AllColumns})

InitGender == InitWith(GenderShapes, MaxRowsGender, TRUE, {AllColumns})

InitScores == InitWith(ScoreShapes, MaxRowsScores, TRUE, {AllColumns})

InitComments == InitWith(CommentShapes, MaxRowsComments, FALSE, {AllColumns})

Spec == Init /\ [][Next]_vars

SpecAge == InitAge /\ [][Next]_vars

SpecGender == InitGender /\ [][Next]_vars

SpecScores == InitScores /\ [][Next]_vars

SpecComments == InitComments /\ [][Next]_vars

(***************************************************************************)
(* Properties.                                                             *)
(***************************************************************************)
\* The stage returned in the last step that logged.
JustRan(stage) == log # <<>> /\ log[Len(log)] = Ended(stage)

Position(rows, id) == CHOOSE i \in DOMAIN rows : rows[i].id = id

Ascending(rows) ==
    \A i, j \in DOMAIN rows : i < j => rows[i].Timestamp <= rows[j].Timestamp

\* The texts of the input files that are not numbers.
UnparseableTexts == {<<"a", "b", "c">>, <<"x">>}

\* A text without its leading, then without its trailing whitespace.
RECURSIVE TrimLeft(_)
TrimLeft(s) == IF s # <<>> /\ IsSpace(Head(s)) THEN TrimLeft(Tail(s)) ELSE s

RECURSIVE TrimRight(_)
TrimRight(s) ==
    IF s # <<>> /\ IsSpace(s[Len(s)]) THEN TrimRight(SubSeq(s, 1, Len(s) - 1)) ELSE s

Trim(s) == TrimRight(TrimLeft(s))

HasPrefix(s, p) == Len(p) <= Len(s) /\ \A i \in DOMAIN p : s[i] = p[i]

RECURSIVE AfterFirstColon(_)
AfterFirstColon(s) == IF Head(s) = ":" THEN Tail(s) ELSE AfterFirstColon(Tail(s))

\* The content claim C1 gives for a raw comment.
ExpectedContent(raw) ==
    IF raw = NA \/ HasPrefix(raw, <<"T", "h", "i", "s", " ", "i", "s", " ", "s", "p", "a", "m">>)
    THEN <<"T", "h", "e", " ", "c", "o", "u", "r", "s", "e", " ", "w", "a", "s", " ", "g", "r", "e", "a", "t", "!">>
    ELSE IF HasPrefix(raw, <<"C", "o", "m", "m", "e", "n", "t">>)
    THEN IF ":" \in Range(raw) THEN Trim(AfterFirstColon(raw)) ELSE <<"N", "o", " ", "c", "o", "m", "m", "e", "n", "t">>
    ELSE IF Trim(raw) # <<>> THEN Trim(raw)
    ELSE <<"N", "o", " ", "c", "o", "m", "m", "e", "n", "t">>

\* "Comment {i}: "
Label(i) == <<"C", "o", "m", "m", "e", "n", "t", " ">> \o Str(i) \o <<":", " ">>

\* C1: after the Comments stage the rows ascend by Timestamp, and the row
\* at zero-based position i has Comments = "Comment i: " followed by the
\* content its raw comment determines (the canned text for a missing or spam
\* comment, the trimmed text after the first ':' of a "Comment..." text or
\* "No comment" when it has no ':', the trimmed text when not empty, "No
\* comment" otherwise); no Comments is missing, the indices are 0..n-1.
C1_CommentsFormat ==
    JustRan("comments") =>
        /\ Ascending(df)
        /\ Len(df) = Len(prev)
        /\ \A i \in DOMAIN df :
            /\ df[i].Comments # NA
            /\ df[i].Comments = Label(i - 1) \o ExpectedContent(input[df[i].id].Comments)

\* C1's case: three rows, the sort moved a row, and a spam comment at
\* position 2 became the canned text.
C1_Witness ==
    /\ JustRan("comments")
    /\ Len(df) = 3
    /\ df[1].id # 1
    /\ HasPrefix(input[df[3].id].Comments, <<"T", "h", "i", "s", " ", "i", "s", " ", "s", "p", "a", "m">>)
    /\ df[3].Comments = <<"C", "o", "m", "m", "e", "n", "t", " ", "2", ":", " ", "T", "h", "e", " ", "c", "o", "u", "r", "s", "e", " ", "w", "a", "s", " ", "g", "r", "e", "a", "t", "!">>

\* C2: after the Gender stage no row has a missing Gender and no row has
\* Gender "Femal", "Malee" or "Othr", whatever the input Gender was.
C2_GenderCanonical ==
    JustRan("gender") =>
        \A i \in DOMAIN df :
            /\ df[i].Gender # NA
            /\ df[i].Gender \notin {<<"F", "e", "m", "a", "l">>, <<"M", "a", "l", "e", "e">>, <<"O", "t", "h", "r">>}

\* C3: after the GPA stage every row has a GPA that is not missing and is at
\* least 1.0; a row is removed exactly when its GPA, after interpolation and
\* rounding, is missing or below 1.0 (nothing is removed for being large: a
\* GPA above 4.5 survives); a letter grade A counts 4.5.
C3_GpaStage ==
    JustRan("gpa") =>
        /\ \A i \in DOMAIN df : df[i].GPA # NaN /\ df[i].GPA >= Unit
        /\ \A k \in DOMAIN prev :
            LET v == aux.filled[k]
                \* v rounds to less than 1.00: v < 0.995
                low == v = NaN \/ v * 1000 < 995 * Unit
            IN  /\ low <=> prev[k].id \notin Ids(df)
                /\ (~low /\ prev[k].GPA = <<"A">>) =>
                       RowOf(df, prev[k].id).GPA * 10 = 45 * Unit

\* C3's case: a row with GPA 5.0 survived, a row with 0.996 survived as
\* 1.0, and a row was removed.
C3_Witness ==
    /\ JustRan("gpa")
    /\ \E i \in DOMAIN df : df[i].GPA = 5 * Unit
    /\ \E i \in DOMAIN df : df[i].GPA = Unit /\ prev[Position(prev, df[i].id)].GPA = <<"0", ".", "9", "9", "6">>
    /\ Len(df) < Len(prev)

\* The raw ages of the input files, by what claim C4 says of them.
RejectedAges == {NA, <<"a", "b", "c">>, <<"1", "7">>, <<"1", "7", ".", "9">>, <<"6", "0", ".", "5">>, <<"6", "1">>}

\* C4: after the Age stage every row has a whole Age from 18 to 60; every
\* row whose raw Age is not a number, missing, below 18 or above 60 is
\* removed; rows with Age exactly 18 or exactly 60 are kept.
C4_AgeStage ==
    JustRan("ages") =>
        /\ \A i \in DOMAIN df : df[i].Age \in MinAge..MaxAge
        /\ \A k \in DOMAIN prev :
            /\ prev[k].Age \in RejectedAges => prev[k].id \notin Ids(df)
            /\ prev[k].Age = <<"1", "8">> =>
                   prev[k].id \in Ids(df) /\ RowOf(df, prev[k].id).Age = 18
            /\ prev[k].Age = <<"6", "0">> =>
                   prev[k].id \in Ids(df) /\ RowOf(df, prev[k].id).Age = 60

\* C4's case: a row aged 60 and a row aged 18 were kept, a row was removed.
C4_Witness ==
    /\ JustRan("ages")
    /\ \E i, j \in DOMAIN df : df[i].Age = 60 /\ df[j].Age = 18
    /\ \E k \in DOMAIN prev : prev[k].Age \in RejectedAges /\ prev[k].id \notin Ids(df)

HasUnparseableCell ==
    \E i \in DOMAIN input :
        \/ input[i].Age \in UnparseableTexts
        \/ input[i].GPA \in UnparseableTexts
        \/ input[i].Satisfaction \in UnparseableTexts

\* C5: a cell of Age, GPA or Satisfaction that is not a number never halts
\* the pipeline: in a run on a file with such a cell no stage raises.
C5_ParseFailureNeverHalts ==
    HasUnparseableCell => failedAt \notin Range(Stages)

\* The largest index the normalizer is applied at in C6.
MaxIndex == 12

\* The indices the normalizer is applied at in C6: one and two digits.
NewIndexes == {0, 7, MaxIndex}

\* C6: the normalizer keeps the content of a normalized comment: for every
\* comment "Comment i: c" the Comments stage produced and every index j,
\* _standardize_comment(j, "Comment i: c") is "Comment j: c".
C6_NormalizerKeepsContent ==
    JustRan("comments") =>
        \A i \in DOMAIN df : \A j \in NewIndexes :
            LET out == df[i].Comments
                c == SubSeq(out, Len(Label(i - 1)) + 1, Len(out))
            IN  /\ HasPrefix(out, Label(i - 1))
                /\ StandardizeComment(j, out) = Label(j) \o c

\* C6's case: a produced comment whose content has a ':' of its own, and
\* the spec's example "Comment 2: great class" renumbered to 7.
C6_Witness ==
    /\ JustRan("comments")
    /\ \E i \in DOMAIN df :
        /\ df[i].Comments = Label(i - 1) \o <<"a", ":", " ", "b">>
        /\ StandardizeComment(7, df[i].Comments) = <<"C", "o", "m", "m", "e", "n", "t", " ", "7", ":", " ", "a", ":", " ", "b">>
    /\ \E i \in DOMAIN df :
        /\ input[df[i].id].Comments = <<"C", "o", "m", "m", "e", "n", "t", " ", "2", ":", " ", "g", "r", "e", "a", "t", " ", "c", "l", "a", "s", "s">>
        /\ StandardizeComment(7, df[i].Comments) = <<"C", "o", "m", "m", "e", "n", "t", " ", "7", ":", " ", "g", "r", "e", "a", "t", " ", "c", "l", "a", "s", "s">>

\* The order claim C7 gives for the stages.
ClaimedOrder ==
    <<"timestamps", "student_ids", "ages", "gender", "departments", "gpa",
      "satisfaction", "comments">>

\* The stages that logged their start, in the order they did.
StagesStarted ==
    LET starts == SelectSeq(log, LAMBDA e : e[2] = "start" /\ e[1] # "pipeline")
    IN  [i \in DOMAIN starts |-> starts[i][1]]

\* C7: the stages run in the order Timestamp, Student ID, Age, Gender,
\* Department, GPA, Satisfaction, Comments, each at most once; a file is
\* written only after the Comments stage returned; when loading or a stage
\* raises, the error is logged and raised to the caller, the run ends, no
\* later stage runs and no file is written.
C7_PipelineOrder ==
    /\ Len(StagesStarted) <= Len(ClaimedOrder)
    /\ StagesStarted = SubSeq(ClaimedOrder, 1, Len(StagesStarted))
    /\ files # {} => Ended("comments") \in Range(log)
    /\ failedAt \in {"load"} \cup Range(ClaimedOrder) =>
        /\ files = {}
        /\ exc # ""
        /\ pc \in {"except", "raised"}
        /\ IF failedAt = "load" THEN StagesStarted = <<>>
           ELSE StagesStarted # <<>> /\ StagesStarted[Len(StagesStarted)] = failedAt
        /\ pc = "except" => ENABLED HandleException
        /\ pc = "raised" => log[Len(log)] = <<"pipeline", "error">> /\ ~ENABLED Next

\* C7's case: the Satisfaction stage raised, the error was logged and
\* raised, and nothing was written.
C7_Witness ==
    /\ pc = "raised"
    /\ failedAt = "satisfaction"
    /\ Len(StagesStarted) = 7
    /\ files = {}

\* The last GPA or Satisfaction stage's column: after coercion, after fillna.
ScoreStageRan == JustRan("gpa") \/ JustRan("satisfaction")

PresentBefore(k) == {i \in DOMAIN aux.coerced : i < k /\ aux.coerced[i] # NaN}

PresentAfter(k) == {i \in DOMAIN aux.coerced : i > k /\ aux.coerced[i] # NaN}

Greatest(S) == CHOOSE i \in S : \A j \in S : j <= i

Least(S) == CHOOSE i \in S : \A j \in S : i <= j

\* C8 as stated: a missing value with no present value on one side (a
\* leading or a trailing run) stays missing and its row is removed.
C8_NoExtrapolation ==
    ScoreStageRan =>
        \A k \in DOMAIN aux.coerced :
            (aux.coerced[k] = NaN /\ (PresentBefore(k) = {} \/ PresentAfter(k) = {})) =>
                aux.filled[k] = NaN /\ prev[k].id \notin Ids(df)

\* C8 as amended: in the GPA and Satisfaction stages a missing value of a
\* leading run (no present value before it) stays missing and its row is
\* removed; a missing value of a trailing run (a present value before it,
\* none after) takes the last present value before it, and its row is kept
\* exactly when that value rounds to 1.0 or more.
C8_LeadingRunOnly ==
    ScoreStageRan =>
        \A k \in DOMAIN aux.coerced :
            aux.coerced[k] = NaN =>
                /\ PresentBefore(k) = {} =>
                       aux.filled[k] = NaN /\ prev[k].id \notin Ids(df)
                /\ (PresentBefore(k) # {} /\ PresentAfter(k) = {}) =>
                       /\ aux.filled[k] = aux.coerced[Greatest(PresentBefore(k))]
                       /\ prev[k].id \in Ids(df) <=> aux.filled[k] * 1000 >= 995 * Unit

\* C8's case: the Satisfaction stage ran on a column with a leading missing
\* value, whose row it removed, and a trailing one, which it filled and kept.
C8_Witness ==
    /\ JustRan("satisfaction")
    /\ \E k \in DOMAIN aux.coerced :
        /\ aux.coerced[k] = NaN /\ PresentBefore(k) = {}
        /\ prev[k].id \notin Ids(df)
    /\ \E k \in DOMAIN aux.coerced :
        /\ aux.coerced[k] = NaN /\ PresentBefore(k) # {} /\ PresentAfter(k) = {}
        /\ aux.filled[k] = 4 * Unit
        /\ prev[k].id \in Ids(df)

\* C9: in the GPA and Satisfaction stages a missing value at position k
\* between the nearest present values at p < k < q becomes
\* v_p + (v_q - v_p) * (k - p) / (q - p), and a present value is unchanged.
C9_LinearInterpolation ==
    ScoreStageRan =>
        \A k \in DOMAIN aux.coerced :
            /\ aux.coerced[k] # NaN => aux.filled[k] = aux.coerced[k]
            /\ (aux.coerced[k] = NaN /\ PresentBefore(k) # {} /\ PresentAfter(k) # {}) =>
                LET p == Greatest(PresentBefore(k))
                    q == Least(PresentAfter(k))
                IN  aux.filled[k] * (q - p) =
                        aux.coerced[p] * (q - p)
                        + (aux.coerced[q] - aux.coerced[p]) * (k - p)

\* C9's case: the GPA stage filled two missing values between 3.0 and 5.0,
\* a third and two thirds of the way.
C9_Witness ==
    /\ JustRan("gpa")
    /\ Len(aux.coerced) = 4
    /\ aux.coerced = <<3 * Unit, NaN, NaN, 5 * Unit>>
    /\ aux.filled[2] * 3 = 11 * Unit
    /\ aux.filled[3] * 3 = 13 * Unit

\* C10 as stated: the sort is ascending and stable: rows with equal
\* Timestamp keep the order they had before the sort.
C10_StableSort ==
    JustRan("comments") =>
        /\ Ascending(df)
        /\ \A a, b \in DOMAIN prev :
            (a < b /\ prev[a].Timestamp = prev[b].Timestamp) =>
                Position(df, prev[a].id) < Position(df, prev[b].id)

\* C10 as amended: the sort is ascending: after it the Timestamps do not
\* decrease in row order, the rows are the rows before the sort (each with
\* its own cells), and a row with an earlier Timestamp comes before a row
\* with a later one.
C10_AscendingSort ==
    JustRan("comments") =>
        /\ Ascending(df)
        /\ Len(df) = Len(prev)
        /\ Ids(df) = Ids(prev)
        /\ \A a \in DOMAIN prev :
            [RowOf(df, prev[a].id) EXCEPT !.Comments = prev[a].Comments] = prev[a]
        /\ \A a, b \in DOMAIN prev :
            prev[a].Timestamp < prev[b].Timestamp =>
                Position(df, prev[a].id) < Position(df, prev[b].id)

\* C10's case: the sort moved a later row behind an earlier one, and two
\* rows with the same Timestamp came out in the other order.
C10_Witness ==
    /\ JustRan("comments")
    /\ \E a, b \in DOMAIN prev :
        /\ a < b /\ prev[a].Timestamp > prev[b].Timestamp
        /\ Position(df, prev[a].id) > Position(df, prev[b].id)
    /\ \E a, b \in DOMAIN prev :
        /\ a < b /\ prev[a].Timestamp = prev[b].Timestamp
        /\ Position(df, prev[a].id) > Position(df, prev[b].id)

====
